---- MODULE Spec2Model ----
(***************************************************************************)
(* A model of hadokat/graphics: the PPM codec and Picture of ppmIO.py, the *)
(* shapes of shapes.py, and the compositor and Player of img.py.           *)
(*                                                                         *)
(* Conventions.  A bytes object and an ASCII str are sequences of byte     *)
(* values.  A numpy array is a record [shape, flat]: its shape and its     *)
(* C-contiguous buffer, element [r, c, k] of an (h, w, 3) array being      *)
(* flat[(r*w + c)*3 + k + 1].  Python indexes from 0 and TLA+ from 1, so   *)
(* Python's shape[0] is shape[1] here.  A call's outcome is a record whose *)
(* field st is "ok" or "error" ("none" before any call).                   *)
(***************************************************************************)
EXTENDS Integers, Sequences, FiniteSets, TLC

VARIABLES
    disk,       \* bytes of the file the codec reads and writes
    made,       \* how the file on disk came to be (the writer's arguments)
    ret,        \* outcome of the last _read_ppm
    canvas,     \* the canvas of the scene: its size and background colour
    shapes,     \* the scene: the list of drawables handed to _draw_img
    im,         \* the raster _draw_img returned
    ell,        \* an Ellipse object a caller holds
    pic,        \* a Picture object a caller holds
    asked,      \* what the caller has asked of that object so far
    exc,        \* the exception the caller's last call raised, "none" if none
    frames,     \* Player.frames
    delay,      \* Player.delay
    idx,        \* Player.idx
    shown,      \* the image the Player's Label displays
    timers,     \* the pending Tk after-callbacks, by id
    cancel,     \* Player.cancel: the id of the callback scheduled last
    button,     \* whether _show_img packed a stop button
    stopped     \* whether the user has pressed the stop button

codecVars == <<disk, made, ret>>
sceneVars == <<canvas, shapes, im>>
objectVars == <<ell, pic, asked, exc>>
playerVars == <<frames, delay, idx, shown, timers, cancel, button, stopped>>
vars == <<disk, made, ret, canvas, shapes, im, ell, pic, asked, exc,
          frames, delay, idx, shown, timers, cancel, button, stopped>>

----------------------------------------------------------------------------
(* Bounds of the model *)

\* rasters handed to the codec have at most MaxPixels pixels
MaxPixels == 4
\* integers on the dimension line of a foreign file are in 1..MaxDim
MaxDim == 2
\* a foreign file's payload is at most MaxExtra bytes longer than MaxDim*MaxDim*3
MaxExtra == 2
\* the small canvases are at most MaxCanvas pixels wide and high
MaxCanvas == 3
\* a scene holds at most MaxShapes drawables
MaxShapes == 2
\* a caller moves a Picture at most MaxMoves times
MaxMoves == 3
\* a Player is given at most MaxFrames frames
MaxFrames == 3

----------------------------------------------------------------------------
(* Bytes and text *)

NL == 10
SP == 32
Channels == 3

Range(s) == {s[i] : i \in 1..Len(s)}

Min(a, b) == IF a < b THEN a ELSE b

Take(s, n) == SubSeq(s, 1, Min(n, Len(s)))

\* bytes.split() and int(bytes) drop these
Whitespace == {9, 10, 11, 12, 13, 32}

\* str.strip() also drops the ASCII separators FS, GS, RS, US
StrWhitespace == Whitespace \cup {28, 29, 30, 31}

IsDigit(b) == b \in 48..57

\* str(n) for a natural n, as the f-string of _write_ppm formats shape and c_max
RECURSIVE IntToAscii(_)
IntToAscii(n) ==
    IF n < 10 THEN <<48 + n>>
    ELSE IntToAscii(n \div 10) \o <<48 + (n % 10)>>

\* s with the leading and trailing bytes in ws removed
RECURSIVE StripLeft(_, _)
StripLeft(s, ws) ==
    IF s /= <<>> /\ s[1] \in ws THEN StripLeft(Tail(s), ws) ELSE s

RECURSIVE StripRight(_, _)
StripRight(s, ws) ==
    IF s /= <<>> /\ s[Len(s)] \in ws
    THEN StripRight(SubSeq(s, 1, Len(s) - 1), ws) ELSE s

Strip(s, ws) == StripRight(StripLeft(s, ws), ws)

\* value of a run of decimal digits, most significant first
RECURSIVE DigitsValue(_)
DigitsValue(s) ==
    IF s = <<>> THEN 0
    ELSE 10 * DigitsValue(SubSeq(s, 1, Len(s) - 1)) + (s[Len(s)] - 48)

\* int(b): surrounding whitespace is dropped, what is left must be digits
\* (signs and underscores are outside the alphabet of the modelled files)
ParseInt(b) ==
    LET s == Strip(b, Whitespace)
    IN  IF s /= <<>> /\ \A i \in 1..Len(s) : IsDigit(s[i])
        THEN [ok |-> TRUE, val |-> DigitsValue(s)]
        ELSE [ok |-> FALSE, val |-> 0]

\* length of the first whitespace-free run of s
RECURSIVE WordLen(_)
WordLen(s) ==
    IF s = <<>> \/ s[1] \in Whitespace THEN 0 ELSE 1 + WordLen(Tail(s))

\* bytes.split(): the maximal whitespace-free runs of s, in order
RECURSIVE Split(_)
Split(s) ==
    LET t == StripLeft(s, Whitespace)
    IN  IF t = <<>> THEN <<>>
        ELSE <<SubSeq(t, 1, WordLen(t))>> \o Split(SubSeq(t, WordLen(t) + 1, Len(t)))

\* f.readline() at offset pos: the bytes up to and including the next newline,
\* or the rest of the file; next is the offset after them
ReadLine(bytes, pos) ==
    LET nls == {i \in pos..Len(bytes) : bytes[i] = NL}
        end == IF nls = {} THEN Len(bytes)
               ELSE CHOOSE i \in nls : \A j \in nls : i <= j
    IN  [line |-> SubSeq(bytes, pos, end), next |-> end + 1]

----------------------------------------------------------------------------
(* numpy *)

RECURSIVE Product(_)
Product(shape) ==
    IF shape = <<>> THEN 1 ELSE shape[1] * Product(Tail(shape))

\* ndarray.reshape(dims) of a flat buffer raises ValueError unless the sizes agree
CanReshape(buf, dims) == Len(buf) = Product(dims)

Reshape(buf, dims) == [shape |-> dims, flat |-> buf]

\* ndarray.tobytes() of a C-contiguous array
ToBytes(data) == data.flat

----------------------------------------------------------------------------
(* ppmIO._read_ppm *)

Raise(e) == [st |-> "error", exc |-> e]

\* the shape handed to reshape: (shape[1], shape[0], 3)
ReshapeDimsSwapped(shape) == <<shape[1], shape[2], Channels>>

ReshapeDims(shape) == <<shape[2], shape[1], Channels>>

\* the except branch's r_data[:np.product(shape)]
NoTruncate(r_data, shape) == r_data

Truncate(r_data, shape) == Take(r_data, Product(shape))

ReadPpm(bytes) ==
    LET l1 == ReadLine(bytes, 1)
        l2 == ReadLine(bytes, l1.next)
        l3 == ReadLine(bytes, l2.next)
        toks == Split(l2.line)
        ints == [i \in 1..Len(toks) |-> ParseInt(toks[i])]
        shape == [i \in 1..Len(toks) |-> ints[i].val] \o <<Channels>>
        c_max == ParseInt(l3.line)
        r_data == SubSeq(bytes, l3.next, Len(bytes))
        Return(data) ==
            [st |-> "ok", mn |-> Strip(l1.line, StrWhitespace),
             shape |-> SubSeq(shape, 1, Len(shape) - 1),
             c_max |-> c_max.val, data |-> data]
    IN  IF \E b \in Range(l1.line) : b >= 128 THEN Raise("UnicodeDecodeError")
        ELSE IF \E i \in 1..Len(toks) : ~ints[i].ok THEN Raise("ValueError")
        ELSE IF ~c_max.ok THEN Raise("ValueError")
        ELSE IF Len(shape) < 2 THEN Raise("IndexError")
        ELSE IF CanReshape(r_data, ReshapeDims(shape))
             THEN Return(Reshape(r_data, ReshapeDims(shape)))
        ELSE IF CanReshape(Truncate(r_data, shape), ReshapeDims(shape))
             THEN Return(Reshape(Truncate(r_data, shape), ReshapeDims(shape)))
        ELSE Raise("ValueError")

----------------------------------------------------------------------------
(* ppmIO._write_ppm *)

HeaderSwapped(mn, shape, c_max) ==
    mn \o <<NL>> \o IntToAscii(shape[2]) \o <<SP>> \o IntToAscii(shape[1])
       \o <<NL>> \o IntToAscii(c_max) \o <<NL>>

\* f'{mn}\n{shape[0]} {shape[1]}\n{c_max}\n'.encode()
Header(mn, shape, c_max) ==
    mn \o <<NL>> \o IntToAscii(shape[1]) \o <<SP>> \o IntToAscii(shape[2])
       \o <<NL>> \o IntToAscii(c_max) \o <<NL>>

WritePpm(mn, shape, c_max, data) ==
    Header(mn, shape, c_max) \o ToBytes(data) \o <<NL>>

----------------------------------------------------------------------------
(* The codec's inputs *)

\* 'P6' and 'P3'
MagicTokens == {<<80, 54>>, <<80, 51>>}

MaxColours == {255, 65535}

\* pixel colours; the first is three newline bytes, the last digits and a space
Palette == {<<10, 10, 10>>, <<255, 255, 255>>, <<49, 32, 50>>}

RECURSIVE Flatten(_)
Flatten(pixels) ==
    IF pixels = <<>> THEN <<>> ELSE pixels[1] \o Flatten(Tail(pixels))

\* (width, height) of the rasters written
RasterShapes ==
    {s \in (1..MaxPixels) \X (1..MaxPixels) : s[1] * s[2] <= MaxPixels}

\* the (h, w, 3) uint8 arrays of a shape (w, h)
Rasters(s) ==
    {Reshape(Flatten(px), <<s[2], s[1], Channels>>) :
        px \in [1..(s[1] * s[2]) -> Palette]}

\* a header token of a foreign file: a formatted natural, or text that is no number
IntTok(n) == [isInt |-> TRUE, val |-> n, text |-> IntToAscii(n)]
JunkTok == [isInt |-> FALSE, val |-> 0, text |-> <<97>>]
NoTok == [isInt |-> FALSE, val |-> 0, text |-> <<>>]

DimToks == {IntTok(n) : n \in 1..MaxDim} \cup {JunkTok}

DimLines == UNION {[1..k -> DimToks] : k \in 0..3}

CMaxToks == {IntTok(255), JunkTok, NoTok}

RECURSIVE JoinToks(_)
JoinToks(toks) ==
    IF toks = <<>> THEN <<>>
    ELSE IF Len(toks) = 1 THEN toks[1].text
    ELSE toks[1].text \o <<SP>> \o JoinToks(Tail(toks))

\* payload bytes of a foreign file: a prefix of one of two byte streams
PayloadStream(k) == [i \in 1..(MaxDim * MaxDim * Channels + MaxExtra) |->
                        IF k = 1 THEN 255 ELSE IF i % 2 = 1 THEN 10 ELSE 48]

Payloads == {Take(PayloadStream(k), n) :
                k \in 1..2, n \in 0..(MaxDim * MaxDim * Channels + MaxExtra)}

\* what may follow a header: with a header line missing, the bytes that follow
\* are empty or start with a byte that is no digit
TailsFor(lines) ==
    IF lines = 3 THEN Payloads
    ELSE {p \in Payloads : IF p = <<>> THEN TRUE ELSE p[1] = 255}

\* a foreign file: the first `lines` header lines, then the payload
ForeignFile(lines, dim, cmax, payload) ==
    (IF lines >= 1 THEN <<80, 54, NL>> ELSE <<>>)
    \o (IF lines >= 2 THEN JoinToks(dim) \o <<NL>> ELSE <<>>)
    \o (IF lines >= 3 THEN cmax.text \o <<NL>> ELSE <<>>)
    \o payload

----------------------------------------------------------------------------
(* shapes.py: a shape is its class, its attributes (the property p of the  *)
(* source is stored as _p; the underscore is dropped here) and the list    *)
(* draw_str that draw() turns into a call of an ImageDraw method           *)

\* Python's None, as a value that compares with colours and lists
None == <<>>

\* Shape.__init__
Shape(cls, properties, draw_str) ==
    [cls |-> cls, attrs |-> properties, draw_str |-> draw_str]

\* Shape.draw(): the method name, then the value of each named attribute
ShapeDraw(s) ==
    <<s.draw_str[1]>> \o
        [i \in 1..(Len(s.draw_str) - 1) |-> s.attrs[s.draw_str[i + 1]]]

\* PolyLine.__init__
PolyLine(cls, xy, color, width, joint) ==
    Shape(cls, [xy |-> xy, color |-> color, width |-> width, joint |-> joint],
          <<"line", "xy", "color", "width", "joint">>)

\* Line.__init__
Line(xy0, xy1, color, width) == PolyLine("Line", <<xy0, xy1>>, color, width, None)

\* Line(xy0, xy1) with the defaults of its signature: color=None, width=0
LineDefault(xy0, xy1) == Line(xy0, xy1, None, 0)

\* the bounding box of the ellipse of centre c and radii r
BBox(c, r) == <<<<c[1] - r[1], c[2] - r[2]>>, <<c[1] + r[1], c[2] + r[2]>>>>

\* _PieSlice.__init__, then Ellipse.__init__'s self._c = c and self._r = r
Ellipse(c, r, start, end, fill, outline, width) ==
    Shape("Ellipse",
          [xy |-> BBox(c, r), start |-> start, end |-> end, fill |-> fill,
           outline |-> outline, width |-> width, c |-> c, r |-> r],
          <<"pieslice", "xy", "start", "end", "fill", "outline", "width">>)

\* Ellipse(c, r, fill=fill, outline=outline), the rest as the signature defaults
EllipseDefault(c, r, fill, outline) == Ellipse(c, r, 0, 360, fill, outline, 1)

----------------------------------------------------------------------------
(* ppmIO.Picture *)

\* anchor=(x, y) is a tuple, anchor=[x, y] a list
Anchor(type, x, y) == [type |-> type, at |-> <<x, y>>]

\* Picture(src, anchor=anchor) with src a file name: the file is read
PictureFromFile(bytes, anchor) ==
    LET r == ReadPpm(bytes)
    IN  [cls |-> "Picture", mn |-> r.mn, shape |-> r.shape, c_max |-> r.c_max,
         data |-> r.data, anchor |-> anchor]

\* Picture(src, size, anchor) with src an rgb triple: a solid block of that size
PictureSolid(src, size, anchor) ==
    [cls |-> "Picture", mn |-> <<80, 54>>, shape |-> size, c_max |-> 255,
     data |-> Reshape(Flatten([i \in 1..(size[1] * size[2]) |-> src]),
                      <<size[2], size[1], Channels>>),
     anchor |-> anchor]

----------------------------------------------------------------------------
(* PIL, as img._draw_img uses it.  An image is its size and its pixels; of *)
(* a canvas only the watched pixels are kept: all of a small canvas, and   *)
(* the probes of the 801x801 scene of test_shapes.py                       *)

White == <<255, 255, 255>>
Blue == <<0, 0, 255>>
Dark == <<10, 10, 10>>
Red == <<255, 0, 0>>
Green == <<0, 255, 0>>

Watched ==
    ((0..(MaxCanvas - 1)) \X (0..(MaxCanvas - 1)))
        \cup {<<100, 100>>, <<400, 400>>}

View(size) == {p \in Watched : p[1] < size[1] /\ p[2] < size[2]}

\* Image.new('RGB', (width, height), bg_color)
NewImage(width, height, bg_color) ==
    [size |-> <<width, height>>, px |-> [p \in View(<<width, height>>) |-> bg_color]]

\* Image.fromarray(data) of an (h, w, 3) uint8 array: pixel (x, y) is data[y, x]
FromArray(data) ==
    LET w == data.shape[2]
        h == data.shape[1]
    IN  [size |-> <<w, h>>,
         px |-> [p \in (0..(w - 1)) \X (0..(h - 1)) |->
                    LET at == (p[2] * w + p[1]) * Channels
                    IN  <<data.flat[at + 1], data.flat[at + 2], data.flat[at + 3]>>]]

\* the first source column (row) pasted when the block starts at d0
NoSourceOffset(d0) == 0

SourceOffset(d0) == IF d0 < 0 THEN 0 - d0 ELSE 0

\* Image.paste(src, (x, y)): the block is clipped to the destination
Paste(img, src, at) ==
    LET sx0 == SourceOffset(at[1])
        sy0 == SourceOffset(at[2])
        dx0 == IF at[1] < 0 THEN 0 ELSE at[1]
        dy0 == IF at[2] < 0 THEN 0 ELSE at[2]
        xs == src.size[1] - sx0
        ys == src.size[2] - sy0
        xsize == IF dx0 + xs > img.size[1] THEN img.size[1] - dx0 ELSE xs
        ysize == IF dy0 + ys > img.size[2] THEN img.size[2] - dy0 ELSE ys
    IN  IF xsize <= 0 \/ ysize <= 0 THEN img
        ELSE [img EXCEPT !.px =
                [p \in DOMAIN img.px |->
                    IF /\ p[1] >= dx0 /\ p[1] < dx0 + xsize
                       /\ p[2] >= dy0 /\ p[2] < dy0 + ysize
                    THEN src.px[<<p[1] - dx0 + sx0, p[2] - dy0 + sy0>>]
                    ELSE img.px[p]]]

\* ImageDraw.Draw(im).ink of an RGB image: the colour used when none is given
DefaultInk == White

\* ImageDraw._getink(ink, fill): the outline and fill colours a method uses
GetInk(ink, fill) ==
    IF ink = None /\ fill = None THEN <<DefaultInk, None>> ELSE <<ink, fill>>

Abs(a) == IF a < 0 THEN 0 - a ELSE a
Sign(a) == IF a < 0 THEN 0 - 1 ELSE 1

\* the pixels of the segment p0-p1 of width 0: the points of Bresenham's loop,
\* which steps along the longer span and has moved (2*short*i + long) \div
\* (2*long) pixels along the shorter one after i steps, and the last point
SegmentPixels(p0, p1) ==
    LET dx == Abs(p1[1] - p0[1])
        dy == Abs(p1[2] - p0[2])
        xs == Sign(p1[1] - p0[1])
        ys == Sign(p1[2] - p0[2])
    IN  {p1} \cup
        IF dx = 0 THEN {<<p0[1], p0[2] + i * ys>> : i \in 0..(dy - 1)}
        ELSE IF dy = 0 THEN {<<p0[1] + i * xs, p0[2]>> : i \in 0..(dx - 1)}
        ELSE IF dx > dy
             THEN {<<p0[1] + i * xs, p0[2] + ys * ((2 * dy * i + dx) \div (2 * dx))>> :
                      i \in 0..(dx - 1)}
             ELSE {<<p0[1] + xs * ((2 * dx * i + dy) \div (2 * dy)), p0[2] + i * ys>> :
                      i \in 0..(dy - 1)}

\* the pixels of the polyline through the points xy
LinePixels(xy) ==
    UNION {SegmentPixels(xy[i], xy[i + 1]) : i \in 1..(Len(xy) - 1)}

\* pixel p is inside the ellipse inscribed in the bounding box xy
InEllipse(xy, p) ==
    LET a == xy[2][1] - xy[1][1]
        b == xy[2][2] - xy[1][2]
        u == 2 * p[1] - (xy[1][1] + xy[2][1])
        v == 2 * p[2] - (xy[1][2] + xy[2][2])
    IN  /\ p[1] >= xy[1][1] /\ p[1] <= xy[2][1]
        /\ p[2] >= xy[1][2] /\ p[2] <= xy[2][2]
        /\ u * u * b * b + v * v * a * a <= a * a * b * b

\* pixel p is on the rim of that ellipse
OnEllipseRim(xy, p) ==
    /\ InEllipse(xy, p)
    /\ \E q \in {<<p[1] - 1, p[2]>>, <<p[1] + 1, p[2]>>,
                 <<p[1], p[2] - 1>>, <<p[1], p[2] + 1>>} : ~InEllipse(xy, q)

\* img with its pixels in region set to colour; the rest of region is off the
\* image and is dropped
Fill(img, region, colour) ==
    [img EXCEPT !.px = [p \in DOMAIN img.px |->
                            IF p \in region THEN colour ELSE img.px[p]]]

\* ImageDraw.line(xy, fill, width, joint), for width 0
DrawLine(img, xy, fill, width, joint) ==
    LET ink == GetInk(fill, None)[1]
    IN  IF ink = None THEN img ELSE Fill(img, LinePixels(xy), ink)

\* ImageDraw.pieslice(xy, start, end, fill, outline, width), for the whole
\* ellipse (start 0, end 360): the inside in fill, then the rim in the ink
DrawPieslice(img, xy, start, end, fill, outline, width) ==
    LET ink == GetInk(outline, fill)[1]
        inside == {p \in DOMAIN img.px : InEllipse(xy, p)}
        rim == {p \in DOMAIN img.px : OnEllipseRim(xy, p)}
        filled == IF GetInk(outline, fill)[2] = None THEN img
                  ELSE Fill(img, inside, GetInk(outline, fill)[2])
    IN  IF ink /= None /\ ink /= fill /\ width /= 0
        THEN Fill(filled, rim, ink) ELSE filled

\* getattr(d, s.draw()[0])(*s.draw()[1:])
CallDraw(img, call) ==
    IF call[1] = "line" THEN DrawLine(img, call[2], call[3], call[4], call[5])
    ELSE DrawPieslice(img, call[2], call[3], call[4], call[5], call[6], call[7])

----------------------------------------------------------------------------
(* img._draw_img *)

\* the body of the loop: a Picture is pasted at its anchor, a shape is drawn
DrawOne(img, s) ==
    IF s.cls = "Picture" THEN Paste(img, FromArray(s.data), s.anchor.at)
    ELSE CallDraw(img, ShapeDraw(s))

RECURSIVE DrawLoopReversed(_, _)
DrawLoopReversed(img, ss) ==
    IF ss = <<>> THEN img
    ELSE DrawLoopReversed(DrawOne(img, ss[Len(ss)]), SubSeq(ss, 1, Len(ss) - 1))

DrawLoopFirstOnly(img, ss) == IF ss = <<>> THEN img ELSE DrawOne(img, ss[1])

\* for s in shapes
RECURSIVE DrawLoop(_, _)
DrawLoop(img, ss) ==
    IF ss = <<>> THEN img ELSE DrawLoop(DrawOne(img, ss[1]), Tail(ss))

DrawImg(width, height, ss, bg_color) ==
    DrawLoop(NewImage(width, height, bg_color), ss)

----------------------------------------------------------------------------
(* The scenes composed *)

\* two PPM files: a 2x2 block of four colours and a 2x1 block of two
BlockFiles ==
    {WritePpm(<<80, 54>>, <<2, 2>>, 255,
              Reshape(Red \o Green \o Dark \o <<49, 32, 50>>, <<2, 2, Channels>>)),
     WritePpm(<<80, 54>>, <<2, 1>>, 255,
              Reshape(Green \o Red, <<1, 2, Channels>>))}

\* where the blocks are put: inside, across each edge, and wholly outside
Anchors ==
    {<<0, 0>>, <<0 - 1, 0 - 1>>, <<0 - 2, 1>>,
     <<MaxCanvas - 1, 0>>, <<1, MaxCanvas - 2>>, <<MaxCanvas, MaxCanvas>>}

\* the Ellipse and the Line of test_shapes.py
TestEllipse == EllipseDefault(<<100, 100>>, <<20, 25>>, Dark, None)
TestLine == LineDefault(<<0, 0>>, <<200, 200>>)

Drawables ==
    {PictureFromFile(f, Anchor("tuple", a[1], a[2])) : f \in BlockFiles, a \in Anchors}
    \cup {PictureSolid(Blue, <<1, 2>>, Anchor("tuple", 1, 0))}
    \cup {TestEllipse, TestLine,
          EllipseDefault(<<1, 1>>, <<1, 1>>, Green, None),
          EllipseDefault(<<1, 1>>, <<1, 1>>, None, None),
          Line(<<0, 2>>, <<2, 1>>, Red, 0)}

\* the canvases: two small ones and the 801x801 canvas of test_shapes.py
Canvases ==
    {[size |-> <<MaxCanvas, MaxCanvas - 1>>, bg |-> White],
     [size |-> <<MaxCanvas - 1, MaxCanvas>>, bg |-> Blue],
     [size |-> <<801, 801>>, bg |-> Blue]}

NoImage == [size |-> <<0, 0>>, px |-> <<>>]
NoCanvas == [size |-> <<0, 0>>, bg |-> None]

SceneIdle == canvas = NoCanvas /\ shapes = <<>> /\ im = NoImage

----------------------------------------------------------------------------
(* Calls on the objects a caller holds.  A call gives the object as it is  *)
(* left and the exception raised, "none" when the call returns             *)

Returned(self) == [self |-> self, exc |-> "none"]
Raised(self, e) == [self |-> self, exc |-> e]

\* Ellipse._update
EllipseUpdate(self) ==
    [self EXCEPT !.attrs.xy = BBox(self.attrs.c, self.attrs.r)]

\* Ellipse.c = v
EllipseSetC(self, v) == Returned(EllipseUpdate([self EXCEPT !.attrs.c = v]))

\* Ellipse.r = v: the setter's first statement, self._r = r, reads the name r,
\* which is bound nowhere in its scope
EllipseSetR(self, v) == Raised(self, "NameError")

\* Picture.move(dx, dy): self.anchor[0] += dx assigns to an item of the anchor,
\* which a tuple does not support
PictureMove(self, dx, dy) ==
    IF self.anchor.type = "tuple" THEN Raised(self, "TypeError")
    ELSE Returned([self EXCEPT !.anchor.at = <<@[1] + dx, @[2] + dy>>])

NoObject == [cls |-> "None"]
NotAsked == [c |-> <<0, 0>>, r |-> <<0, 0>>, at |-> <<0, 0>>, moves |-> 0]

ObjectIdle == ell = NoObject /\ pic = NoObject /\ asked = NotAsked /\ exc = "none"

\* what the caller builds its objects from
Centres == {<<1, 1>>, <<2, 3>>, <<5, 4>>}
Radii == {<<1, 1>>, <<2, 1>>, <<3, 4>>}
Offsets == {<<1, 0>>, <<0 - 1, 2>>, <<3, 3>>}
AnchorsGiven ==
    {Anchor(t, a[1], a[2]) : t \in {"tuple", "list"}, a \in {<<0, 0>>, <<150, 150>>}}

----------------------------------------------------------------------------
(* img.Player and img._show_img *)

\* the delay when neither the frame nor the caller gives one
DefaultDelay == 100

\* Player.__init__'s delay: frames[0].info['duration'] or 100, overridden by a
\* duration that is truthy (0 stands for a missing entry and for None)
PlayerDelay(info, duration) ==
    IF duration /= 0 THEN duration
    ELSE IF info /= 0 THEN info ELSE DefaultDelay

\* the id Tk gives a new after-callback: one no pending callback has and no
\* variable holds
NewTimer(pending, held) ==
    CHOOSE t \in 1..3 : t \notin pending /\ t /= held

NextIdxSkip(i, n) == (i + 2) % n

\* (self.idx + 1) % len(self.frames)
NextIdx(i, n) == (i + 1) % n

PlayerIdle ==
    /\ frames = <<>> /\ delay = 0 /\ idx = 0 /\ shown = 0
    /\ timers = {} /\ cancel = 0 /\ button = FALSE /\ stopped = FALSE

\* the images a frame list is made of
Images == 1..2

\* a frame is a PIL image: which picture it is and its info['duration'], 0 for none
FrameLists ==
    UNION {[1..n -> [img : Images, info : {0, 40}]] : n \in 1..MaxFrames}

notCodec == <<sceneVars, objectVars, playerVars>>
notScene == <<codecVars, objectVars, playerVars>>
notObject == <<codecVars, sceneVars, playerVars>>
notPlayer == <<codecVars, sceneVars, objectVars>>

----------------------------------------------------------------------------
(* The codec as a state machine: one file per behaviour.  _write_ppm opens *)
(* the file with 'wb', so what it leaves does not depend on what was there *)

NoFile == [by |-> "nobody"]
NoRet == [st |-> "none"]

CodecIdle == disk = <<>> /\ made = NoFile /\ ret = NoRet

CodecInit == CodecIdle /\ SceneIdle /\ ObjectIdle /\ PlayerIdle

\* _write_ppm(mn, shape, c_max, data, fname), as Picture.save calls it
Write ==
    /\ made = NoFile /\ ret = NoRet
    /\ \E mn \in MagicTokens, s \in RasterShapes, c_max \in MaxColours :
        \E data \in Rasters(s) :
            /\ disk' = WritePpm(mn, s, c_max, data)
            /\ made' = [by |-> "write", mn |-> mn, shape |-> s,
                        c_max |-> c_max, data |-> data]
    /\ UNCHANGED <<ret, notCodec>>

\* another program leaves a file for the reader
Store ==
    /\ made = NoFile /\ ret = NoRet
    /\ \E lines \in 0..3, dim \in DimLines, cmax \in CMaxToks :
        \E payload \in TailsFor(lines) :
            /\ disk' = ForeignFile(lines, dim, cmax, payload)
            /\ made' = [by |-> "other", lines |-> lines, dim |-> dim,
                        cmax |-> cmax, payload |-> payload]
    /\ UNCHANGED <<ret, notCodec>>

\* _read_ppm(fname)
Read ==
    /\ ret = NoRet
    /\ ret' = IF made = NoFile THEN Raise("FileNotFoundError") ELSE ReadPpm(disk)
    /\ UNCHANGED <<disk, made, notCodec>>

CodecNext == Write \/ Store \/ Read

SpecCodec == CodecInit /\ [][CodecNext]_vars

----------------------------------------------------------------------------
(* Claims about the codec *)

\* the file on disk was written by _write_ppm and has been read back
ReadBack == made.by = "write" /\ ret.st /= "none"

\* C1: reading back what _write_ppm wrote (header, buffer, one trailing newline)
\* returns the magic token, the (width, height), the max colour and the pixel
\* array that were written, the array with the same (height, width, 3) layout
C1_RoundTrip ==
    ReadBack =>
        /\ ret.st = "ok"
        /\ ret.mn = made.mn
        /\ ret.shape = made.shape
        /\ ret.c_max = made.c_max
        /\ ret.data.shape = <<made.shape[2], made.shape[1], Channels>>
        /\ ret.data.flat = made.data.flat

\* a raster that is not square and holds newline bytes has made the round trip
C1_Witness ==
    /\ ReadBack
    /\ ret.st = "ok"
    /\ made.shape[1] /= made.shape[2]
    /\ NL \in Range(made.data.flat)
    /\ 255 \in Range(made.data.flat)

\* a foreign file with all three header lines, two integers on the dimension
\* line and an integer max colour has been read
WellFormedRead ==
    /\ made.by = "other" /\ ret.st /= "none"
    /\ made.lines = 3
    /\ Len(made.dim) = 2
    /\ \A i \in 1..Len(made.dim) : made.dim[i].isInt
    /\ made.cmax.isInt

\* the payload size the header declares: width * height * 3
Declared == made.dim[1].val * made.dim[2].val * Channels

\* C2 as stated: with a well-formed header the read succeeds exactly when the
\* payload has width*height*3 bytes or one byte more
C2_ExactOrOneExtra ==
    WellFormedRead =>
        (ret.st = "ok" <=> Len(made.payload) \in {Declared, Declared + 1})

\* C2 as amended: with a well-formed header the read succeeds exactly when the
\* payload has at least width*height*3 bytes, whatever the excess, and returns
\* the first width*height*3 bytes as a (height, width, 3) array; a shorter
\* payload raises ValueError
C2_AtLeastDeclared ==
    WellFormedRead =>
        IF Len(made.payload) >= Declared
        THEN /\ ret.st = "ok"
             /\ ret.shape = <<made.dim[1].val, made.dim[2].val>>
             /\ ret.data.shape = <<made.dim[2].val, made.dim[1].val, Channels>>
             /\ ret.data.flat = SubSeq(made.payload, 1, Declared)
        ELSE ret.st = "error" /\ ret.exc = "ValueError"

\* a payload two bytes longer than a non-empty declared raster has been accepted
C2_Witness ==
    /\ WellFormedRead
    /\ Declared > 0
    /\ Len(made.payload) >= Declared + 2
    /\ ret.st = "ok"

\* a foreign file whose header is malformed has been read
MalformedRead ==
    /\ made.by = "other" /\ ret.st /= "none"
    /\ \/ made.lines < 3
       \/ Len(made.dim) /= 2
       \/ \E i \in 1..Len(made.dim) : ~made.dim[i].isInt
       \/ ~made.cmax.isInt

\* C6: a read of a file with a malformed header (a token that is no integer, a
\* missing header line, a dimension line without exactly two integers) raises
\* and returns no picture
C6_MalformedRejected == MalformedRead => ret.st = "error"

\* s is the decimal text of n: digits, no leading zero, of value n
IsDecimalOf(s, n) ==
    /\ Len(s) >= 1
    /\ \A i \in 1..Len(s) : IsDigit(s[i])
    /\ Len(s) > 1 => s[1] /= 48
    /\ DigitsValue(s) = n

\* C7: the bytes _write_ppm leaves are the magic token, a newline, the decimal
\* width, a space, the decimal height, a newline, the decimal max colour, a
\* newline, the buffer's width*height*3 bytes and one newline, nothing else; a
\* 2x2 white raster with P6 and 255 gives 'P6\n2 2\n255\n', 12 bytes 0xFF, '\n'
C7_OutputFormat ==
    made.by = "write" =>
        LET mn == made.mn
            n == made.shape[1] * made.shape[2] * Channels
            hl == Len(disk) - n - 1
            m == Len(mn)
        IN  /\ hl >= m + 7
            /\ disk[Len(disk)] = NL
            /\ SubSeq(disk, hl + 1, hl + n) = made.data.flat
            /\ SubSeq(disk, 1, m) = mn
            /\ disk[m + 1] = NL
            /\ disk[hl] = NL
            /\ \E a \in 1..hl, b \in 1..hl :
                /\ m + a + b + 4 < hl
                /\ IsDecimalOf(SubSeq(disk, m + 2, m + 1 + a), made.shape[1])
                /\ disk[m + 2 + a] = SP
                /\ IsDecimalOf(SubSeq(disk, m + 3 + a, m + 2 + a + b), made.shape[2])
                /\ disk[m + 3 + a + b] = NL
                /\ IsDecimalOf(SubSeq(disk, m + 4 + a + b, hl - 1), made.c_max)
            /\ (/\ mn = <<80, 54>> /\ made.shape = <<2, 2>> /\ made.c_max = 255
                /\ Range(made.data.flat) = {255})
               => disk = <<80, 54, 10, 50, 32, 50, 10, 50, 53, 53, 10,
                           255, 255, 255, 255, 255, 255,
                           255, 255, 255, 255, 255, 255, 10>>

\* the 2x2 white raster has been written with magic P6 and max colour 255
C7_Witness ==
    /\ made.by = "write"
    /\ made.mn = <<80, 54>> /\ made.shape = <<2, 2>> /\ made.c_max = 255
    /\ Range(made.data.flat) = {255}

----------------------------------------------------------------------------
(* The compositor as a state machine: a caller picks a canvas, builds a    *)
(* list of drawables and has _draw_img composite it                        *)

SceneInit ==
    /\ CodecIdle /\ ObjectIdle /\ PlayerIdle
    /\ canvas \in Canvases /\ shapes = <<>> /\ im = NoImage

\* the caller appends a drawable to the list
AddShape ==
    /\ im = NoImage
    /\ Len(shapes) < MaxShapes
    /\ \E d \in Drawables : shapes' = Append(shapes, d)
    /\ UNCHANGED <<canvas, im, notScene>>

\* _draw_img(width, height, shapes, bg_color)
Draw ==
    /\ im = NoImage
    /\ im' = DrawImg(canvas.size[1], canvas.size[2], shapes, canvas.bg)
    /\ UNCHANGED <<canvas, shapes, notScene>>

SceneNext == AddShape \/ Draw

SpecScene == SceneInit /\ [][SceneNext]_vars

----------------------------------------------------------------------------
(* Claims about the compositor *)

\* _draw_img has returned the raster of the scene
Drawn == im /= NoImage

\* the ink ImageDraw uses for the rim of the ellipse s, None when it draws none
RimInk(s) ==
    IF s.attrs.outline /= None THEN s.attrs.outline
    ELSE IF s.attrs.fill = None THEN White ELSE None

\* the rim of the ellipse s is drawn
RimDrawn(s) ==
    RimInk(s) /= None /\ RimInk(s) /= s.attrs.fill /\ s.attrs.width /= 0

\* pixel p lies in the region of drawable s
Covers(s, p) ==
    IF s.cls = "Picture"
    THEN /\ p[1] >= s.anchor.at[1] /\ p[1] < s.anchor.at[1] + s.data.shape[2]
         /\ p[2] >= s.anchor.at[2] /\ p[2] < s.anchor.at[2] + s.data.shape[1]
    ELSE IF s.cls = "Line" THEN p \in LinePixels(s.attrs.xy)
    ELSE \/ s.attrs.fill /= None /\ InEllipse(s.attrs.xy, p)
         \/ RimDrawn(s) /\ OnEllipseRim(s.attrs.xy, p)

\* element [row, col] of the (h, w, 3) array data
PixelOf(data, col, row) ==
    LET at == (row * data.shape[2] + col) * Channels
    IN  SubSeq(data.flat, at + 1, at + Channels)

\* the colour drawable s has at a pixel p of its region
ColourOf(s, p) ==
    IF s.cls = "Picture"
    THEN PixelOf(s.data, p[1] - s.anchor.at[1], p[2] - s.anchor.at[2])
    ELSE IF s.cls = "Line"
         THEN IF s.attrs.color = None THEN White ELSE s.attrs.color
    ELSE IF RimDrawn(s) /\ OnEllipseRim(s.attrs.xy, p) THEN RimInk(s)
    ELSE s.attrs.fill

Last(S) == CHOOSE i \in S : \A j \in S : j <= i

\* C3: every pixel of the raster _draw_img returns has the colour of the last
\* drawable of the list whose region covers it, and the background colour when
\* none does
C3_LastWriterWins ==
    Drawn =>
        \A p \in View(canvas.size) :
            LET over == {i \in 1..Len(shapes) : Covers(shapes[i], p)}
            IN  im.px[p] = IF over = {} THEN canvas.bg
                           ELSE ColourOf(shapes[Last(over)], p)

\* a shape and then a Picture have been composited, they overlap in a pixel
\* where their colours differ, and the pixel shows the Picture's
C3_Witness ==
    /\ Drawn
    /\ Len(shapes) = 2
    /\ shapes[1].cls /= "Picture" /\ shapes[2].cls = "Picture"
    /\ \E p \in View(canvas.size) :
        /\ Covers(shapes[1], p) /\ Covers(shapes[2], p)
        /\ ColourOf(shapes[1], p) /= ColourOf(shapes[2], p)
        /\ im.px[p] = ColourOf(shapes[2], p)

\* the scene of test_shapes.py has been composited
TestScene ==
    /\ Drawn
    /\ canvas = [size |-> <<801, 801>>, bg |-> Blue]
    /\ shapes = <<TestEllipse, TestLine>>

\* C4 as stated: in the scene of test_shapes.py pixel (100, 100) is the
\* ellipse's fill (10, 10, 10) and pixel (400, 400) the background (0, 0, 255)
C4_CentreIsFill ==
    TestScene => im.px[<<100, 100>>] = Dark /\ im.px[<<400, 400>>] = Blue

\* C4 as amended: in the scene of test_shapes.py pixel (100, 100) is white, the
\* default ink of the Line drawn last through the ellipse's centre, and pixel
\* (400, 400) is the background (0, 0, 255)
C4_CentreIsLine ==
    TestScene => im.px[<<100, 100>>] = White /\ im.px[<<400, 400>>] = Blue

\* the scene of test_shapes.py has been composited and (100, 100) is in both shapes
C4_Witness ==
    /\ TestScene
    /\ Covers(TestEllipse, <<100, 100>>) /\ Covers(TestLine, <<100, 100>>)
    /\ ~Covers(TestEllipse, <<400, 400>>) /\ ~Covers(TestLine, <<400, 400>>)

\* the raster after the first i drawables of the scene
RasterAfter(i) ==
    IF i = Len(shapes) THEN im
    ELSE DrawImg(canvas.size[1], canvas.size[2], SubSeq(shapes, 1, i), canvas.bg)

\* C5: pasting a Picture, wherever its anchor puts the block, gives each canvas
\* pixel (x, y) under the block the block's pixel (x - anchor_x, y - anchor_y)
\* and leaves every other canvas pixel as it was; the raster keeps its size and
\* its pixels
C5_PasteClipped ==
    Drawn =>
        \A i \in 1..Len(shapes) :
            shapes[i].cls = "Picture" =>
                LET P == shapes[i]
                    ax == P.anchor.at[1]
                    ay == P.anchor.at[2]
                    before == RasterAfter(i - 1)
                    after == RasterAfter(i)
                IN  /\ after.size = canvas.size
                    /\ DOMAIN after.px = View(canvas.size)
                    /\ \A p \in View(canvas.size) :
                        after.px[p] =
                            IF /\ ax <= p[1] /\ p[1] < ax + P.shape[1]
                               /\ ay <= p[2] /\ p[2] < ay + P.shape[2]
                            THEN PixelOf(P.data, p[1] - ax, p[2] - ay)
                            ELSE before.px[p]

\* a 2x2 block anchored at (-1, -1) was pasted last: only its pixel (1, 1) is on
\* the canvas, at (0, 0); and a block anchored beyond the right and bottom edges
\* was pasted before it
C5_Witness ==
    /\ Drawn
    /\ Len(shapes) = 2
    /\ shapes[1].cls = "Picture"
    /\ shapes[1].anchor.at[1] >= canvas.size[1]
    /\ shapes[2].cls = "Picture"
    /\ shapes[2].anchor.at = <<0 - 1, 0 - 1>> /\ shapes[2].shape = <<2, 2>>
    /\ im.px[<<0, 0>>] = <<49, 32, 50>>
    /\ im.px[<<1, 0>>] = canvas.bg

----------------------------------------------------------------------------
(* A caller holding one shape object: it builds an Ellipse or a Picture    *)
(* and then assigns to the Ellipse's c and r or moves the Picture          *)

ObjectInit == CodecIdle /\ SceneIdle /\ PlayerIdle /\ ObjectIdle

\* e = Ellipse(c, r, fill=...)
NewEllipse ==
    /\ ell = NoObject /\ pic = NoObject
    /\ \E c \in Centres, r \in Radii :
        /\ ell' = EllipseDefault(c, r, Dark, None)
        /\ asked' = [asked EXCEPT !.c = c, !.r = r]
    /\ exc' = "none"
    /\ UNCHANGED <<pic, notObject>>

\* e.c = v
SetC ==
    /\ ell /= NoObject
    /\ \E v \in Centres :
        /\ ell' = EllipseSetC(ell, v).self
        /\ exc' = EllipseSetC(ell, v).exc
        /\ asked' = [asked EXCEPT !.c = v]
    /\ UNCHANGED <<pic, notObject>>

\* e.r = v
SetR ==
    /\ ell /= NoObject
    /\ \E v \in Radii :
        /\ ell' = EllipseSetR(ell, v).self
        /\ exc' = EllipseSetR(ell, v).exc
        /\ asked' = [asked EXCEPT !.r = v]
    /\ UNCHANGED <<pic, notObject>>

\* p = Picture(src, size) and p = Picture(src, size, anchor)
NewPicture ==
    /\ ell = NoObject /\ pic = NoObject
    /\ \E a \in AnchorsGiven :
        /\ pic' = PictureSolid(Red, <<2, 1>>, a)
        /\ asked' = [asked EXCEPT !.at = a.at]
    /\ exc' = "none"
    /\ UNCHANGED <<ell, notObject>>

\* p.move(dx, dy)
Move ==
    /\ pic /= NoObject
    /\ asked.moves < MaxMoves
    /\ \E d \in Offsets :
        /\ pic' = PictureMove(pic, d[1], d[2]).self
        /\ exc' = PictureMove(pic, d[1], d[2]).exc
        /\ asked' = [asked EXCEPT !.at = <<@[1] + d[1], @[2] + d[2]>>,
                                  !.moves = @ + 1]
    /\ UNCHANGED <<ell, notObject>>

ObjectNext == NewEllipse \/ SetC \/ SetR \/ NewPicture \/ Move

SpecObject == ObjectInit /\ [][ObjectNext]_vars

----------------------------------------------------------------------------
(* Claims about the objects *)

\* C8: after any sequence of moves of a Picture, however it was constructed,
\* every move has returned, the anchor is the initial anchor plus the sum of
\* the offsets, and the pixel data, shape, magic and max colour are as built
C8_MoveAddsOffset ==
    pic /= NoObject =>
        /\ exc = "none"
        /\ pic.anchor.at = asked.at
        /\ pic = [PictureSolid(Red, <<2, 1>>, pic.anchor) EXCEPT !.anchor = pic.anchor]

\* C9: after construction and any sequence of assignments to c and r, every
\* assignment has returned, c and r read as assigned last, and the xy that
\* draw() hands the rasterizer is the bounding box of that centre and radii
C9_BoxFollowsCentreAndRadii ==
    ell /= NoObject =>
        /\ exc = "none"
        /\ ell.attrs.c = asked.c
        /\ ell.attrs.r = asked.r
        /\ ShapeDraw(ell)[2] =
            <<<<asked.c[1] - asked.r[1], asked.c[2] - asked.r[2]>>,
              <<asked.c[1] + asked.r[1], asked.c[2] + asked.r[2]>>>>

----------------------------------------------------------------------------
(* The viewer as a state machine: _show_img has built the Player and, for  *)
(* a list of more than one frame, the stop button; Tk's main loop then     *)
(* runs the callbacks that are due and the button's command                *)

\* p = Player(_root, frames, duration), and the Button when len(frames) > 1
PlayerInit ==
    /\ CodecIdle /\ SceneIdle /\ ObjectIdle
    /\ frames \in FrameLists
    /\ \E duration \in {0, 1000} : delay = PlayerDelay(frames[1].info, duration)
    /\ idx = 0
    /\ shown = frames[1].img
    /\ timers = IF Len(frames) > 1 THEN {NewTimer({}, 0)} ELSE {}
    /\ cancel = IF Len(frames) > 1 THEN NewTimer({}, 0) ELSE 0
    /\ button = (Len(frames) > 1)
    /\ stopped = FALSE

\* Player.play, run by Tk when the callback t is due
Play ==
    \E t \in timers :
        /\ shown' = frames[idx + 1].img
        /\ idx' = NextIdx(idx, Len(frames))
        /\ cancel' = NewTimer(timers \ {t}, cancel)
        /\ timers' = (timers \ {t}) \cup {NewTimer(timers \ {t}, cancel)}
        /\ UNCHANGED <<frames, delay, button, stopped, notPlayer>>

\* a stop command that cancels the callback of the construction, not the
\* one scheduled last
StopInitial ==
    /\ button
    /\ timers' = timers \ {NewTimer({}, 0)}
    /\ stopped' = TRUE
    /\ UNCHANGED <<frames, delay, idx, shown, cancel, button, notPlayer>>

\* the stop button's command: p.after_cancel(p.cancel); cancelling an id that
\* is no longer pending does nothing
Stop ==
    /\ button
    /\ timers' = timers \ {cancel}
    /\ stopped' = TRUE
    /\ UNCHANGED <<frames, delay, idx, shown, cancel, button, notPlayer>>

PlayerNext == Play \/ Stop

\* Tk's main loop runs a callback that stays due
SpecPlayer == PlayerInit /\ [][PlayerNext]_vars /\ WF_vars(Play)

----------------------------------------------------------------------------
(* Claims about the Player *)

\* idx is an index of frames, at most one callback is pending, and one is
\* pending only when there is more than one frame
CounterInRange ==
    /\ idx \in 0..(Len(frames) - 1)
    /\ Cardinality(timers) <= 1
    /\ timers /= {} => Len(frames) > 1

\* a step that changes idx or the displayed image or schedules a callback is a
\* firing of play: it displays frames[idx], advances idx modulo the number of
\* frames and leaves exactly one callback pending, a new one, held by cancel
FiringAdvances ==
    (idx' /= idx \/ shown' /= shown \/ ~(timers' \subseteq timers)) =>
        /\ timers /= {}
        /\ shown' = frames[idx + 1].img
        /\ idx' = (idx + 1) % Len(frames)
        /\ Cardinality(timers') = 1
        /\ timers' \cap timers = {}
        /\ timers' = {cancel'}

\* unless the playback is stopped, frame i is displayed again and again
FrameRecurs(i) ==
    []<>(\/ timers = {}
         \/ i > Len(frames)
         \/ shown = frames[i].img /\ idx = i % Len(frames))

\* C10: idx stays within 0..n-1, a timer exists only when n > 1, every firing
\* of play displays frames[idx], sets idx to (idx + 1) mod n and schedules
\* exactly one next firing, at most one timer is pending at any time, and
\* absent a stop every frame is displayed in turn forever
C10_FrameCounter ==
    /\ []CounterInRange
    /\ [][FiringAdvances]_vars
    /\ \A i \in 1..MaxFrames : FrameRecurs(i)

\* with three frames the last has been displayed and idx is back at 0, the
\* next firing pending
C10_Witness ==
    /\ Len(frames) = 3
    /\ idx = 0
    /\ frames[3].img /= frames[1].img
    /\ shown = frames[3].img
    /\ timers /= {}

\* the button exists exactly for a list of more than one frame, and until it
\* is pressed that is exactly when a callback is pending
ButtonIffPlaying ==
    /\ button <=> Len(frames) > 1
    /\ ~stopped => (button <=> timers /= {})

\* once stop has been pressed no callback is pending
StoppedCancelled == stopped => timers = {} /\ button

\* once stop has been pressed nothing the Player holds or displays changes,
\* whatever is done next, another press included
StoppedFrozen == stopped => UNCHANGED <<idx, shown, timers, cancel, stopped>>

\* C11: a stop button exists exactly when the Player has more than one frame,
\* which until a press is exactly when a play callback is pending; a press at
\* any point of the playback cancels the pending callback, and from then on
\* play never fires, idx and the displayed frame never change, and a further
\* press changes nothing.
C11_StopCancels ==
    /\ []ButtonIffPlaying
    /\ []StoppedCancelled
    /\ [][StoppedFrozen]_vars

\* stop was pressed in the middle of a playback: after a frame other than the
\* first was displayed and before the list was gone through
C11_Witness ==
    /\ stopped
    /\ Len(frames) = 3
    /\ idx = 2
    /\ shown = frames[2].img
    /\ timers = {}

====
